---- MODULE Spec2Model ----
(***************************************************************************)
(* Approval-gated tool runners of the agent's tool layer:                  *)
(*   ExecuteCommandTool (execute-command.tool.ts)                          *)
(*   WriteFileTool      (write-file.tool.ts)                               *)
(* One behaviour is one tool invocation (one ts).  Every action is the     *)
(* piece of code that runs between two suspension points (awaits) of the   *)
(* single-threaded event loop, or one event handler / external callback.   *)
(* Strings are sequences of one-character strings.                         *)
(***************************************************************************)
EXTENDS Integers, Sequences, FiniteSets, TLC

\* ------------------------------------------------------------------ bounds
\* number of `line` events the process emits in one invocation
MaxLines == 2
\* number of things the outside does to one invocation besides answering its
\* awaited calls: a rejected promise of an external collaborator, an
\* abortToolExecution call, a handlePartialUpdate call
MaxOutsideEvents == 2
\* Date.now() when the tool is constructed, in ms
Epoch == 1000
\* number of pieces a content string is put together from
MaxPieces == 4

\* `private readonly UPDATE_INTERVAL = 8`
UPDATE_INTERVAL == 8

\* ------------------------------------------------------------ text helpers
NL == "\n"
\* JavaScript `undefined` for a string-valued slot (no one-character string)
Undefined == <<"undefined">>
\* the literal the result embeds when the buffer is empty
NoOutputText == <<"No output">>

\* the characters String.prototype.trim strips: WhiteSpace and LineTerminator
\* of ECMAScript (a character outside the lexer's reach is named by its code point)
WhiteSpace ==
    {" ", NL, "\t", "\r", "\f", "U+000B", "U+00A0", "U+FEFF", "U+2028", "U+2029",
     "U+1680", "U+2000", "U+2001", "U+2002", "U+2003", "U+2004", "U+2005",
     "U+2006", "U+2007", "U+2008", "U+2009", "U+200A", "U+202F", "U+205F",
     "U+3000"}

IsWhitespace(c) == c \in WhiteSpace

RECURSIVE TrimStart(_)
TrimStart(s) ==
    IF s # <<>> /\ IsWhitespace(Head(s)) THEN TrimStart(Tail(s)) ELSE s

RECURSIVE TrimEnd(_)
TrimEnd(s) ==
    IF s # <<>> /\ IsWhitespace(s[Len(s)])
    THEN TrimEnd(SubSeq(s, 1, Len(s) - 1))
    ELSE s

\* String.prototype.trim
Trim(s) == TrimEnd(TrimStart(s))

StartsWith(s, p) == Len(s) >= Len(p) /\ SubSeq(s, 1, Len(p)) = p
EndsWith(s, p) == Len(s) >= Len(p) /\ SubSeq(s, Len(s) - Len(p) + 1, Len(s)) = p

\* the backquote character (the lexer admits no backquote inside a string)
Backquote == "BQ"
Fence == <<Backquote, Backquote, Backquote>>

NewlineAt(s) == {i \in 1..Len(s) : s[i] = NL}
Min(S) == CHOOSE x \in S : \A y \in S : x <= y
Max(S) == CHOOSE x \in S : \A y \in S : x >= y

\* content.split("\n").slice(1).join("\n")
DropFirstLine(s) ==
    IF NewlineAt(s) = {} THEN <<>> ELSE SubSeq(s, Min(NewlineAt(s)) + 1, Len(s))

\* content.split("\n").slice(0, -1).join("\n")
DropLastLine(s) ==
    IF NewlineAt(s) = {} THEN <<>> ELSE SubSeq(s, 1, Max(NewlineAt(s)) - 1)

\* String.prototype.replace(/from/g, to) for a one-character pattern
ReplaceAll(s, from, to) == [i \in 1..Len(s) |-> IF s[i] = from THEN to ELSE s[i]]

\* WriteFileTool.preprocessContent
preprocessContent(content) ==
    LET c0 == Trim(content)
        c1 == IF StartsWith(c0, Fence) THEN Trim(DropFirstLine(c0)) ELSE c0
        c2 == IF EndsWith(c1, Fence) THEN Trim(DropLastLine(c1)) ELSE c1
    IN  ReplaceAll(ReplaceAll(ReplaceAll(c2, ">", ">"), "<", "<"), "\"", "\"")

\* --------------------------------------------------------------- the inputs
Commands == {Undefined, <<>>, <<" ", "\r">>, <<"l", "s">>}
Paths == {"", "a.txt"}
Contents == {<<>>, <<"x">>,
             Fence \o <<"\r", NL, "x", "\r", NL>> \o Fence \o <<"\r", NL>>}
\* the lines a process may emit (the empty line included)
Lines == {<<>>, <<"a">>, <<"b">>}
Responses == {"yesButtonTapped", "noButtonTapped", "messageResponse"}
\* the operator's free text: absent, or given
Texts == {"undefined", "wrong approach"}
\* what the operator answers an ask with: free text comes with a refusal only
\* (the text of an approval is never read)
Answers == {a \in Responses \X Texts : a[1] = "yesButtonTapped" => a[2] = "undefined"}
\* content of the target file before the invocation: absent, or some text
Absent == <<"absent">>
\* the partial contents the stream hands to handlePartialUpdate, in order
PartialStream == << <<"p">>, <<"p", "q">> >>
\* the instants at which Date.now() is read, in ms
Instants == {Epoch, Epoch + UPDATE_INTERVAL}
DiskContents == {Absent, <<"o">>}

VARIABLES
    tool,           \* which engine this invocation runs
    input,          \* this.params.input
    config,         \* session configuration read by the engines
    pc,             \* the suspension point the engine's main flow is at
    broadcasts,     \* payloads handed to the Approval Channel (ask, updateAsk), in order
    says,           \* the channels say() was called with, in order
    result,         \* the ToolResponse the engine returned
    thrown,         \* an exception left the engine (execute() rejected)
    faults,         \* failures raised by external collaborators so far
    response,       \* `response` of the resolved ask ("none" before)
    text,           \* `text` of the resolved ask
    dropped,        \* broadcasts whose promise was dropped and has not settled yet
    unhandled,      \* rejections of promises nobody awaits
    \* --- ExecuteCommandTool
    output,         \* this.output, the OutputBuffer
    received,       \* every `line` event emitted so far, in order
    completed,      \* local `completed`
    earlyExit,      \* local `earlyExit`
    timedOut,       \* the COMMAND_TIMEOUT timer ended the race
    proc,           \* the process handle: "none" | "running"
    procEvents,     \* one-shot events the process has emitted
    termCalls,      \* calls of getOrCreateTerminal
    runCalls,       \* calls of runCommand
    warning,        \* the say of the no_shell_integration listener: none, pending, settled
    \* --- WriteFileTool
    isProcessingFinalContent,
    diff,           \* the DiffViewProvider (Diff Session)
    disk,           \* content of the target file
    calls,          \* calls made on the DiffViewProvider: <<method, caller>>, in order
    aborts,         \* the abortToolExecution calls made so far, each with its position
    fileExists,     \* what checkFileExists returned
    userEdits,      \* whether saveChanges returned user edits
    lastUpdateTime, \* this.lastUpdateTime
    partials,       \* the handlePartialUpdate calls made so far, each with its position
    pushes,         \* the update(content, isFinal) calls made on the Diff Session, in order
    now,            \* what Date.now() returned when it was last read
    \* --- preprocessContent on its own
    preprocessed    \* the results of applying preprocessContent again and again

cmdVars == <<output, received, completed, earlyExit, timedOut, proc, procEvents,
             termCalls, runCalls, warning>>
promiseVars == <<dropped, unhandled>>
fileVars == <<isProcessingFinalContent, diff, disk, calls, aborts, fileExists,
              userEdits>>
partialVars == <<lastUpdateTime, partials, pushes>>
clockVars == <<now>>
envVars == <<tool, input, config>>
vars == <<tool, input, config, pc, broadcasts, says, result, thrown, faults,
          response, text, promiseVars, cmdVars, fileVars, partialVars, clockVars,
          preprocessed>>

\* ---------------------------------------------------------------- constants
\* `let didContinue = false`, never assigned afterwards
didContinue == FALSE

\* isApprovedState
isApprovedState(state) == state = "approved"

NoResult == [kind |-> "none", body |-> Undefined, feedback |-> "undefined"]
Result(kind, body, feedback) == [kind |-> kind, body |-> body, feedback |-> feedback]

\* One payload handed to the Approval Channel.  `seen` is the number of line
\* events that had been emitted when the payload was built.
Payload(via, state, data, exit, feedback) ==
    [via |-> via, approvalState |-> state, data |-> data, earlyExit |-> exit,
     userFeedback |-> feedback, seen |-> Len(received)]

\* The Diff Session before open and after revertChanges.
ClosedDiff == [open |-> FALSE, content |-> Undefined, isFinal |-> FALSE,
               isEditing |-> FALSE, original |-> Undefined, saved |-> FALSE]

\* the state of a tool right after its constructor
Constructed ==
    /\ pc = "start"
    /\ broadcasts = <<>>
    /\ says = <<>>
    /\ result = NoResult
    /\ thrown = FALSE
    /\ faults = 0
    /\ response = "none"
    /\ text = "undefined"
    /\ output = <<>>
    /\ received = <<>>
    /\ completed = FALSE
    /\ earlyExit = "pending"
    /\ timedOut = FALSE
    /\ proc = "none"
    /\ procEvents = {}
    /\ termCalls = 0
    /\ runCalls = 0
    /\ dropped = {}
    /\ unhandled = 0
    /\ warning = "none"
    /\ isProcessingFinalContent = FALSE
    /\ diff = ClosedDiff
    /\ calls = <<>>
    /\ aborts = <<>>
    /\ fileExists = FALSE
    /\ userEdits = FALSE
    /\ lastUpdateTime = 0
    /\ partials = <<>>
    /\ pushes = <<>>
    /\ now = Epoch
    /\ preprocessed = <<>>

Init ==
    /\ tool \in {"execute_command", "write_to_file"}
    /\ \/ /\ tool = "execute_command"
          /\ input \in [command : Commands, path : {""}, content : {Undefined}]
          /\ config \in [advancedTerminalManager : BOOLEAN,
                         alwaysAllowWriteOnly : BOOLEAN,
                         returnEmptyStringOnSuccess : BOOLEAN,
                         skipWriteAnimation : {FALSE}]
          /\ disk = Absent
       \/ /\ tool = "write_to_file"
          /\ input \in [command : {Undefined}, path : Paths,
                        content : Contents \cup {Undefined}]
          /\ config \in [advancedTerminalManager : {TRUE},
                         alwaysAllowWriteOnly : {FALSE},
                         returnEmptyStringOnSuccess : {FALSE},
                         skipWriteAnimation : BOOLEAN]
          /\ disk \in DiskContents
    /\ Constructed

\* The call an action resumes from either resolved (ok) or, within the
\* budget, rejected.
\* what the outside has done so far
OutsideEvents == faults + Len(aborts) + Len(partials)

Outcome(ok) ==
    /\ ok \/ OutsideEvents < MaxOutsideEvents
    /\ faults' = IF ok THEN faults ELSE faults + 1

\* =================================================== ExecuteCommandTool ====

\* An exception leaves executeShellTerminal: nothing was returned.
Propagate ==
    /\ thrown' = TRUE
    /\ pc' = "done"
    /\ UNCHANGED result

\* The engine returns `res`.
Return(res) ==
    /\ result' = res
    /\ pc' = "done"
    /\ UNCHANGED thrown

\* `response !== "yesButtonTapped"` of executeShellTerminal
commandDenied(resp) == resp # "yesButtonTapped"

commandMissing_Untrimmed(command) == command = Undefined \/ command = <<>>

\* `!command?.trim()`
commandMissing(command) == command = Undefined \/ Trim(command) = <<>>

\* execute(), up to the awaited say("error") of a missing command, or running
\* on into executeShellTerminal up to the awaited ask
execute ==
    /\ tool = "execute_command"
    /\ pc = "start"
    /\ IF commandMissing(input.command)
       THEN /\ says' = Append(says, "error")
            /\ pc' = "say_error"
            /\ UNCHANGED <<broadcasts, result, thrown>>
       ELSE IF ~config.advancedTerminalManager
       THEN /\ Propagate
            /\ UNCHANGED <<says, broadcasts>>
       ELSE /\ broadcasts' = Append(broadcasts,
                    Payload("ask", "pending", Undefined, "undefined", "undefined"))
            /\ pc' = "ask"
            /\ UNCHANGED <<says, result, thrown>>
    /\ UNCHANGED <<envVars, faults, response, text, cmdVars, promiseVars, fileVars>>
    /\ UNCHANGED <<partialVars, clockVars, preprocessed>>

\* say("error") returns: the validation error is returned; a rejection leaves
\* execute
sayErrorReturns(ok) ==
    /\ tool = "execute_command"
    /\ pc = "say_error"
    /\ Outcome(ok)
    /\ IF ok
       THEN Return(Result("validation_error", Undefined, "undefined"))
       ELSE Propagate
    /\ UNCHANGED <<envVars, broadcasts, says, response, text, cmdVars, promiseVars, fileVars>>
    /\ UNCHANGED <<partialVars, clockVars, preprocessed>>

\* The ask resolves (or rejects): the rejection branch, or the loading
\* broadcast and the call of getOrCreateTerminal.  The first broadcast of
\* either branch is not awaited: its promise is dropped.
askReturns(resp, txt, ok) ==
    /\ tool = "execute_command"
    /\ pc = "ask"
    /\ Outcome(ok)
    /\ IF ~ok
       THEN /\ Propagate
            /\ UNCHANGED <<broadcasts, dropped, response, text, termCalls>>
       ELSE /\ response' = resp
            /\ text' = txt
            /\ dropped' = dropped \cup {Len(broadcasts) + 1}
            /\ IF commandDenied(resp)
               THEN LET b1 == Append(broadcasts,
                            Payload("updateAsk", "rejected", Undefined, "undefined", "undefined"))
                    IN  IF resp = "messageResponse" /\ ~config.alwaysAllowWriteOnly
                        THEN /\ broadcasts' = Append(b1,
                                    Payload("updateAsk", "rejected", Undefined, "undefined", txt))
                             /\ pc' = "denied"
                             /\ UNCHANGED <<result, thrown, termCalls>>
                        ELSE /\ broadcasts' = b1
                             /\ Return(Result("denied", Undefined, "undefined"))
                             /\ UNCHANGED termCalls
               ELSE /\ broadcasts' = Append(broadcasts,
                            Payload("updateAsk", "loading", Undefined, "undefined", "undefined"))
                    /\ termCalls' = termCalls + 1
                    /\ pc' = "terminal"
                    /\ UNCHANGED <<result, thrown>>
    /\ UNCHANGED <<envVars, says, output, received, completed, earlyExit, timedOut,
                   proc, procEvents, runCalls, unhandled, warning, fileVars>>
    /\ UNCHANGED <<partialVars, clockVars, preprocessed>>

\* The awaited feedback broadcast of the messageResponse branch returns:
\* say("user_feedback") is called and awaited.
deniedReturns(ok) ==
    /\ tool = "execute_command"
    /\ pc = "denied"
    /\ Outcome(ok)
    /\ IF ok
       THEN /\ says' = Append(says, "user_feedback")
            /\ pc' = "say_denied"
            /\ UNCHANGED <<result, thrown>>
       ELSE /\ Propagate
            /\ UNCHANGED says
    /\ UNCHANGED <<envVars, broadcasts, response, text, cmdVars, promiseVars, fileVars>>
    /\ UNCHANGED <<partialVars, clockVars, preprocessed>>

\* say("user_feedback") returns: the denied-with-feedback result; a rejection
\* leaves executeShellTerminal
sayDeniedReturns(ok) ==
    /\ tool = "execute_command"
    /\ pc = "say_denied"
    /\ Outcome(ok)
    /\ IF ok
       THEN Return(Result("denied_feedback", Undefined, text))
       ELSE Propagate
    /\ UNCHANGED <<envVars, broadcasts, says, response, text, cmdVars, promiseVars, fileVars>>
    /\ UNCHANGED <<partialVars, clockVars, preprocessed>>

\* getOrCreateTerminal returns; terminal.show(); runCommand; the handlers are
\* subscribed and the race is awaited.  hasProcess: runCommand gave a process.
terminalReturns(ok, hasProcess) ==
    /\ tool = "execute_command"
    /\ pc = "terminal"
    /\ Outcome(ok /\ hasProcess)
    /\ IF ~ok
       THEN /\ Propagate
            /\ UNCHANGED <<runCalls, proc>>
       ELSE /\ runCalls' = runCalls + 1
            /\ IF ~hasProcess
               THEN /\ Propagate
                    /\ UNCHANGED proc
               ELSE /\ proc' = "running"
                    /\ pc' = "race"
                    /\ UNCHANGED <<result, thrown>>
    /\ UNCHANGED <<envVars, broadcasts, says, response, text, output, received,
                   completed, earlyExit, timedOut, procEvents, termCalls, promiseVars, warning,
                   fileVars>>
    /\ UNCHANGED <<partialVars, clockVars, preprocessed>>

appendLine_Overwrites(buffer, line) == line \o <<NL>>

\* `this.output += cleanedLine + "\n"`
appendLine(buffer, line) == buffer \o line \o <<NL>>

\* process.on("line")
onLine(line) ==
    /\ proc = "running"
    /\ Len(received) < MaxLines
    /\ received' = Append(received, line)
    /\ IF line # <<>>
       THEN /\ output' = appendLine(output, line)
            /\ IF ~didContinue \/ isApprovedState(earlyExit)
               THEN broadcasts' = Append(broadcasts,
                        [Payload("updateAsk", "loading", output', earlyExit, "undefined")
                            EXCEPT !.seen = Len(received')])
               ELSE UNCHANGED broadcasts
       ELSE UNCHANGED <<output, broadcasts>>
    /\ UNCHANGED <<envVars, pc, says, result, thrown, faults, response, text,
                   completed, earlyExit, timedOut, proc, procEvents, termCalls,
                   runCalls, promiseVars, warning, fileVars>>
    /\ UNCHANGED <<partialVars, clockVars, preprocessed>>

\* process.once("completed"): resolves completionPromise, which ends the race
\* when the race is still open.
onCompleted ==
    /\ proc = "running"
    /\ "completed" \notin procEvents
    /\ procEvents' = procEvents \cup {"completed"}
    /\ earlyExit' = "approved"
    /\ completed' = TRUE
    /\ pc' = IF pc = "race" THEN "grace" ELSE pc
    /\ UNCHANGED <<envVars, broadcasts, says, result, thrown, faults, response, text,
                   output, received, timedOut, proc, termCalls, runCalls, promiseVars, warning,
                   fileVars>>
    /\ UNCHANGED <<partialVars, clockVars, preprocessed>>

\* process.on("error"): logged only
onError ==
    /\ proc = "running"
    /\ "error" \notin procEvents
    /\ procEvents' = procEvents \cup {"error"}
    /\ UNCHANGED <<envVars, pc, broadcasts, says, result, thrown, faults, response,
                   text, output, received, completed, earlyExit, timedOut, proc,
                   termCalls, runCalls, promiseVars, warning, fileVars>>
    /\ UNCHANGED <<partialVars, clockVars, preprocessed>>

\* process.once("no_shell_integration"): an async listener; it calls
\* say("shell_integration_warning") and awaits it
onNoShellIntegration ==
    /\ proc = "running"
    /\ "no_shell_integration" \notin procEvents
    /\ procEvents' = procEvents \cup {"no_shell_integration"}
    /\ says' = Append(says, "shell_integration_warning")
    /\ warning' = "pending"
    /\ UNCHANGED <<envVars, pc, broadcasts, result, thrown, faults, response, text,
                   output, received, completed, earlyExit, timedOut, proc, termCalls,
                   runCalls, promiseVars, fileVars>>
    /\ UNCHANGED <<partialVars, clockVars, preprocessed>>

\* the listener's say returns: the listener throws (or the rejected say
\* does), which rejects the promise the listener returned; nobody awaits it
warningReturns(ok) ==
    /\ warning = "pending"
    /\ Outcome(ok)
    /\ warning' = "settled"
    /\ unhandled' = unhandled + 1
    /\ UNCHANGED <<envVars, pc, broadcasts, says, result, thrown, response, text,
                   dropped, output, received, completed, earlyExit, timedOut, proc, procEvents,
                   termCalls, runCalls, fileVars>>
    /\ UNCHANGED <<partialVars, clockVars, preprocessed>>

onTimeout_RaceStaysOpen ==
    /\ tool = "execute_command"
    /\ pc = "race"
    /\ timedOut' = TRUE
    /\ UNCHANGED <<envVars, pc, broadcasts, says, result, thrown, faults, response,
                   text, output, received, completed, earlyExit, proc, procEvents,
                   termCalls, runCalls, promiseVars, warning, fileVars>>
    /\ UNCHANGED <<partialVars, clockVars, preprocessed>>

\* delay(COMMAND_TIMEOUT) fires while the race is open and ends it
onTimeout ==
    /\ tool = "execute_command"
    /\ pc = "race"
    /\ timedOut' = TRUE
    /\ pc' = "grace"
    /\ UNCHANGED <<envVars, broadcasts, says, result, thrown, faults, response, text,
                   output, received, completed, earlyExit, proc, procEvents,
                   termCalls, runCalls, promiseVars, warning, fileVars>>
    /\ UNCHANGED <<partialVars, clockVars, preprocessed>>

\* delay(300) is over: the finalize broadcast is issued and awaited
finalize ==
    /\ tool = "execute_command"
    /\ pc = "grace"
    /\ broadcasts' = Append(broadcasts,
            Payload("updateAsk", "approved", output, earlyExit, "undefined"))
    /\ pc' = "finalize"
    /\ UNCHANGED <<envVars, says, result, thrown, faults, response, text, cmdVars, promiseVars,
                   fileVars>>
    /\ UNCHANGED <<partialVars, clockVars, preprocessed>>

\* `this.output || "No output"`
OutputOrNone == IF output = <<>> THEN NoOutputText ELSE output

\* `if (completed)`: "Output:" after "completed successfully", else
\* "Partial output available:"
resultWording == IF completed THEN "completed" ELSE "partial"

\* The finalize broadcast returns: the result is built (userFeedback is never
\* assigned, so the feedback section is skipped); a rejection goes to catch,
\* whose error broadcast is not awaited.
finalizeReturns(ok) ==
    /\ tool = "execute_command"
    /\ pc = "finalize"
    /\ Outcome(ok)
    /\ IF ok
       THEN /\ Return(IF config.returnEmptyStringOnSuccess
                      THEN Result("empty", <<>>, "undefined")
                      ELSE Result(resultWording, OutputOrNone, "undefined"))
            /\ UNCHANGED <<broadcasts, dropped>>
       ELSE /\ broadcasts' = Append(broadcasts,
                    Payload("updateAsk", "error", <<"error message">>, "undefined", "undefined"))
            /\ dropped' = dropped \cup {Len(broadcasts) + 1}
            /\ Return(Result("error", <<"error message">>, "undefined"))
    /\ UNCHANGED <<envVars, says, response, text, cmdVars, unhandled, fileVars>>
    /\ UNCHANGED <<partialVars, clockVars, preprocessed>>

\* The promise of a broadcast that was called without await settles: nothing
\* runs when it resolves; a rejection has no handler
droppedSettles(i, ok) ==
    /\ i \in dropped
    /\ Outcome(ok)
    /\ dropped' = dropped \ {i}
    /\ unhandled' = IF ok THEN unhandled ELSE unhandled + 1
    /\ UNCHANGED <<envVars, pc, broadcasts, says, result, thrown, response, text,
                   cmdVars, fileVars, partialVars, clockVars, preprocessed>>

\* ======================================================== DiffViewProvider ====
\* The Diff Session the engine drives: open / update / saveChanges /
\* revertChanges / isDiffViewOpen.

isDiffViewOpen(d) == d.open

\* open(path): the session shows the file's current content for editing
DiffOpen(d, onDisk) == [d EXCEPT !.open = TRUE, !.isEditing = TRUE, !.original = onDisk]

\* update(content, isFinal): the preview shows `content`
DiffUpdate(d, content, isFinal) ==
    IF d.open THEN [d EXCEPT !.content = content, !.isFinal = isFinal] ELSE d

\* revertChanges(): every preview edit is discarded and the session closed
DiffRevert(d) == IF d.open THEN ClosedDiff ELSE d
DiskAfterRevert(d, onDisk) == IF d.open THEN d.original ELSE onDisk

\* the previewed content with the operator's hand edits
Edited(content) == content \o <<"!">>

\* saveChanges(): the previewed content (with the operator's edits) is written
DiffSave(d) == IF d.open THEN [ClosedDiff EXCEPT !.saved = TRUE] ELSE d
DiskAfterSave(d, onDisk, edits) ==
    IF d.open THEN (IF edits THEN Edited(d.content) ELSE d.content) ELSE onDisk

\* ======================================================== WriteFileTool ====

finishWrite_NoFinally(res, d) ==
    /\ result' = res
    /\ pc' = "done"
    /\ diff' = d
    /\ UNCHANGED <<isProcessingFinalContent, thrown>>

\* `return` inside try/catch, then the finally block
finishWrite(res, d) ==
    /\ result' = res
    /\ pc' = "done"
    /\ isProcessingFinalContent' = FALSE
    /\ diff' = [d EXCEPT !.isEditing = FALSE]
    /\ UNCHANGED thrown

\* the catch block: the error is logged and turned into the result
catchWrite(d) == finishWrite(Result("error", Undefined, "undefined"), d)

\* one update(content, isFinal) call on the Diff Session, made not before `at`
Push(caller, content, isFinal, at) ==
    [by |-> caller, content |-> content, isFinal |-> isFinal, at |-> at]

writeInputMissing_PathOnly(relPath, content) == relPath = ""

\* `!relPath || !content`
writeInputMissing(relPath, content) ==
    relPath = "" \/ content = Undefined \/ content = <<>>

\* processFileWrite from its start to the first await of showChangesInDiffView
processFileWrite ==
    /\ tool = "write_to_file"
    /\ pc = "start"
    /\ IF writeInputMissing(input.path, input.content)
       THEN /\ catchWrite(diff)
            /\ UNCHANGED <<calls, pushes>>
       ELSE /\ isProcessingFinalContent' = TRUE
            /\ IF ~isDiffViewOpen(diff)
               THEN /\ calls' = Append(calls, <<"open", "processFileWrite">>)
                    /\ pc' = "open"
                    /\ UNCHANGED pushes
               ELSE /\ calls' = Append(calls, <<"update", "processFileWrite">>)
                    /\ pushes' = Append(pushes,
                            Push("processFileWrite", preprocessContent(input.content), TRUE, now))
                    /\ pc' = "update"
            /\ UNCHANGED <<result, thrown, diff>>
    /\ UNCHANGED <<envVars, broadcasts, says, faults, response, text, cmdVars, promiseVars, disk,
                   aborts, fileExists, userEdits>>
    /\ UNCHANGED <<lastUpdateTime, partials, clockVars, preprocessed>>

\* showChangesInDiffView: open(relPath) returns, update(content, true) is called
openReturns(ok) ==
    /\ tool = "write_to_file"
    /\ pc = "open"
    /\ Outcome(ok)
    /\ IF ok
       THEN /\ diff' = DiffOpen(diff, disk)
            /\ calls' = Append(calls, <<"update", "processFileWrite">>)
            /\ pushes' = Append(pushes,
                    Push("processFileWrite", preprocessContent(input.content), TRUE, now))
            /\ pc' = "update"
            /\ UNCHANGED <<result, thrown, isProcessingFinalContent>>
       ELSE /\ catchWrite(diff)
            /\ UNCHANGED <<calls, pushes>>
    /\ UNCHANGED <<envVars, broadcasts, says, response, text, cmdVars, promiseVars, disk, aborts,
                   fileExists, userEdits>>
    /\ UNCHANGED <<lastUpdateTime, partials, clockVars, preprocessed>>

\* update(content, true) returns; the ask is issued with approvalState pending
updateReturns(ok) ==
    /\ tool = "write_to_file"
    /\ pc = "update"
    /\ Outcome(ok)
    /\ IF ok
       THEN /\ diff' = DiffUpdate(diff, preprocessContent(input.content), TRUE)
            /\ broadcasts' = Append(broadcasts,
                    Payload("ask", "pending", input.content, "undefined", "undefined"))
            /\ pc' = "ask"
            /\ UNCHANGED <<result, thrown, isProcessingFinalContent>>
       ELSE /\ catchWrite(diff)
            /\ UNCHANGED broadcasts
    /\ UNCHANGED <<envVars, says, response, text, cmdVars, promiseVars, disk, calls, aborts,
                   fileExists, userEdits>>
    /\ UNCHANGED <<partialVars, clockVars, preprocessed>>

writeDenied_OnlyNoButton(resp) == resp = "noButtonTapped"

\* `response !== "yesButtonTapped"` of processFileWrite
writeDenied(resp) == resp # "yesButtonTapped"

\* the ask resolves: revertChanges is called on anything but yesButtonTapped,
\* else checkFileExists
writeAskReturns(resp, txt, ok) ==
    /\ tool = "write_to_file"
    /\ pc = "ask"
    /\ Outcome(ok)
    /\ IF ok
       THEN /\ response' = resp
            /\ text' = txt
            /\ IF writeDenied(resp)
               THEN /\ calls' = Append(calls, <<"revertChanges", "processFileWrite">>)
                    /\ pc' = "revert"
               ELSE /\ calls' = calls
                    /\ pc' = "exists"
            /\ UNCHANGED <<result, thrown, isProcessingFinalContent, diff>>
       ELSE /\ catchWrite(diff)
            /\ UNCHANGED <<response, text, calls>>
    /\ UNCHANGED <<envVars, broadcasts, says, cmdVars, promiseVars, disk, aborts, fileExists,
                   userEdits>>
    /\ UNCHANGED <<partialVars, clockVars, preprocessed>>

\* revertChanges returns; the rejected broadcast is issued and awaited
revertReturns(ok) ==
    /\ tool = "write_to_file"
    /\ pc = "revert"
    /\ Outcome(ok)
    /\ IF ok
       THEN /\ diff' = DiffRevert(diff)
            /\ disk' = DiskAfterRevert(diff, disk)
            /\ broadcasts' = Append(broadcasts,
                    Payload("updateAsk", "rejected", input.content, "undefined", text))
            /\ pc' = "rejected"
            /\ UNCHANGED <<result, thrown, isProcessingFinalContent>>
       ELSE /\ catchWrite(diff)
            /\ UNCHANGED <<disk, broadcasts>>
    /\ UNCHANGED <<envVars, says, response, text, cmdVars, promiseVars, calls, aborts, fileExists,
                   userEdits>>
    /\ UNCHANGED <<partialVars, clockVars, preprocessed>>

\* the rejected broadcast returns; the cancellation result, or
\* say("user_feedback") is called and awaited
rejectedReturns(ok) ==
    /\ tool = "write_to_file"
    /\ pc = "rejected"
    /\ Outcome(ok)
    /\ IF ~ok
       THEN /\ catchWrite(diff)
            /\ UNCHANGED says
       ELSE IF response = "noButtonTapped"
       THEN /\ finishWrite(Result("cancelled", Undefined, "undefined"), diff)
            /\ UNCHANGED says
       ELSE /\ says' = Append(says, "user_feedback")
            /\ pc' = "say_rejected"
            /\ UNCHANGED <<result, thrown, isProcessingFinalContent, diff>>
    /\ UNCHANGED <<envVars, broadcasts, response, text, cmdVars, promiseVars, disk, calls, aborts,
                   fileExists, userEdits>>
    /\ UNCHANGED <<partialVars, clockVars, preprocessed>>

\* say("user_feedback") returns; the cancellation result with the feedback
sayRejectedReturns(ok) ==
    /\ tool = "write_to_file"
    /\ pc = "say_rejected"
    /\ Outcome(ok)
    /\ IF ok
       THEN finishWrite(Result("cancelled", Undefined, text), diff)
       ELSE catchWrite(diff)
    /\ UNCHANGED <<envVars, broadcasts, says, response, text, cmdVars, promiseVars, disk, calls,
                   aborts, fileExists, userEdits>>
    /\ UNCHANGED <<partialVars, clockVars, preprocessed>>

\* checkFileExists returns; saveChanges is called
existsReturns(ok) ==
    /\ tool = "write_to_file"
    /\ pc = "exists"
    /\ Outcome(ok)
    /\ IF ok
       THEN /\ fileExists' = (disk # Absent)
            /\ calls' = Append(calls, <<"saveChanges", "processFileWrite">>)
            /\ pc' = "save"
            /\ UNCHANGED <<result, thrown, isProcessingFinalContent, diff>>
       ELSE /\ catchWrite(diff)
            /\ UNCHANGED <<fileExists, calls>>
    /\ UNCHANGED <<envVars, broadcasts, says, response, text, cmdVars, promiseVars, disk, aborts,
                   userEdits>>
    /\ UNCHANGED <<partialVars, clockVars, preprocessed>>

\* saveChanges returns {userEdits}; the approved broadcast is issued and awaited
saveReturns(ok, edits) ==
    /\ tool = "write_to_file"
    /\ pc = "save"
    /\ Outcome(ok)
    /\ IF ok
       THEN /\ diff' = DiffSave(diff)
            /\ disk' = DiskAfterSave(diff, disk, edits)
            /\ userEdits' = (edits /\ diff.open)
            /\ broadcasts' = Append(broadcasts,
                    Payload("updateAsk", "approved", input.content, "undefined", "undefined"))
            /\ pc' = "approved"
            /\ UNCHANGED <<result, thrown, isProcessingFinalContent>>
       ELSE /\ catchWrite(diff)
            /\ UNCHANGED <<disk, userEdits, broadcasts>>
    /\ UNCHANGED <<envVars, says, response, text, cmdVars, promiseVars, calls, aborts, fileExists>>
    /\ UNCHANGED <<partialVars, clockVars, preprocessed>>

\* the approved broadcast returns; the success result, or
\* say("user_feedback_diff") is called and awaited
approvedReturns(ok) ==
    /\ tool = "write_to_file"
    /\ pc = "approved"
    /\ Outcome(ok)
    /\ IF ~ok
       THEN /\ catchWrite(diff)
            /\ UNCHANGED says
       ELSE IF userEdits
       THEN /\ says' = Append(says, "user_feedback_diff")
            /\ pc' = "say_edits"
            /\ UNCHANGED <<result, thrown, isProcessingFinalContent, diff>>
       ELSE /\ finishWrite(Result("saved", Undefined, "undefined"), diff)
            /\ UNCHANGED says
    /\ UNCHANGED <<envVars, broadcasts, response, text, cmdVars, promiseVars, disk, calls, aborts,
                   fileExists, userEdits>>
    /\ UNCHANGED <<partialVars, clockVars, preprocessed>>

\* say("user_feedback_diff") returns; the result that names the user's edits
sayEditsReturns(ok) ==
    /\ tool = "write_to_file"
    /\ pc = "say_edits"
    /\ Outcome(ok)
    /\ IF ok
       THEN finishWrite(Result("saved_with_edits", Undefined, "undefined"), diff)
       ELSE catchWrite(diff)
    /\ UNCHANGED <<envVars, broadcasts, says, response, text, cmdVars, promiseVars, disk, calls,
                   aborts, fileExists, userEdits>>
    /\ UNCHANGED <<partialVars, clockVars, preprocessed>>

\* ---- handlePartialUpdate: a call made by the stream for each partial content.
\* Calls are not awaited by one another: each has its own position.

\* a handlePartialUpdate call: where it is suspended, its content, its currentTime
PartialCall(at, content, currentTime) ==
    [pc |-> at, content |-> content, currentTime |-> currentTime]

\* a handlePartialUpdate call that has returned: its locals are gone
Returned == PartialCall("returned", <<>>, 0)

\* `currentTime - this.lastUpdateTime < this.UPDATE_INTERVAL`
throttled(currentTime, last) == currentTime - last < UPDATE_INTERVAL

\* handlePartialUpdate from its start to its first await, or to its return;
\* currentTime is what Date.now() returns if the call gets to read it.  The
\* loading broadcast of the skipWriteAnimation branch is not awaited.
handlePartialUpdate(content, currentTime) ==
    /\ tool = "write_to_file"
    /\ OutsideEvents < MaxOutsideEvents
    /\ Len(partials) < Len(PartialStream)
    /\ content = PartialStream[Len(partials) + 1]
    /\ currentTime >= now
    /\ IF isProcessingFinalContent
       THEN /\ partials' = Append(partials, Returned)
            /\ currentTime = now
            /\ UNCHANGED <<broadcasts, dropped, calls, pushes, now>>
       ELSE IF config.skipWriteAnimation
       THEN /\ broadcasts' = Append(broadcasts,
                    Payload("updateAsk", "loading", content, "undefined", "undefined"))
            /\ dropped' = dropped \cup {Len(broadcasts) + 1}
            /\ partials' = Append(partials, Returned)
            /\ currentTime = now
            /\ UNCHANGED <<calls, pushes, now>>
       ELSE /\ now' = currentTime
            /\ UNCHANGED dropped
            /\ IF throttled(currentTime, lastUpdateTime)
               THEN /\ partials' = Append(partials, Returned)
                    /\ UNCHANGED <<broadcasts, calls, pushes>>
               ELSE IF ~isDiffViewOpen(diff)
               THEN /\ calls' = Append(calls, <<"open", "handlePartialUpdate">>)
                    /\ partials' = Append(partials,
                            PartialCall("open", content, currentTime))
                    /\ UNCHANGED <<broadcasts, pushes>>
               ELSE /\ calls' = Append(calls, <<"update", "handlePartialUpdate">>)
                    /\ pushes' = Append(pushes,
                            Push("handlePartialUpdate", content, FALSE, currentTime))
                    /\ partials' = Append(partials,
                            PartialCall("update", content, currentTime))
                    /\ UNCHANGED broadcasts
    /\ UNCHANGED <<envVars, pc, says, result, thrown, faults, response, text, cmdVars,
                   unhandled, isProcessingFinalContent, diff, disk, aborts, fileExists, userEdits,
                   lastUpdateTime, preprocessed>>

\* The promise of open(relPath) of call i settles: the Diff Session is open
\* from here on, before the call has resumed; a rejection is caught and logged
\* and the call returns
partialOpenSettles(i, ok) ==
    /\ i \in 1..Len(partials)
    /\ partials[i].pc = "open"
    /\ Outcome(ok)
    /\ IF ok
       THEN /\ diff' = DiffOpen(diff, disk)
            /\ partials' = [partials EXCEPT ![i].pc = "opened"]
       ELSE /\ partials' = [partials EXCEPT ![i] = Returned]
            /\ UNCHANGED diff
    /\ UNCHANGED <<envVars, pc, broadcasts, says, result, thrown, response, text,
                   cmdVars, promiseVars, isProcessingFinalContent, disk, calls, aborts,
                   fileExists, userEdits, lastUpdateTime, pushes, clockVars,
                   preprocessed>>

\* call i resumes after `await open(relPath)`: update(content, false) is called
partialOpenReturns(i) ==
    /\ i \in 1..Len(partials)
    /\ partials[i].pc = "opened"
    /\ calls' = Append(calls, <<"update", "handlePartialUpdate">>)
    /\ pushes' = Append(pushes,
            Push("handlePartialUpdate", partials[i].content, FALSE, now))
    /\ partials' = [partials EXCEPT ![i].pc = "update"]
    /\ UNCHANGED <<envVars, pc, broadcasts, says, result, thrown, faults, response,
                   text, cmdVars, promiseVars, isProcessingFinalContent, diff, disk,
                   aborts, fileExists, userEdits, lastUpdateTime, clockVars,
                   preprocessed>>

\* update(content, false) of call i returns: lastUpdateTime = currentTime; a
\* rejection leaves handlePartialUpdate as a rejected promise
partialUpdateReturns(i, ok) ==
    /\ i \in 1..Len(partials)
    /\ partials[i].pc = "update"
    /\ Outcome(ok)
    /\ IF ok
       THEN /\ diff' = DiffUpdate(diff, partials[i].content, FALSE)
            /\ lastUpdateTime' = partials[i].currentTime
            /\ partials' = [partials EXCEPT ![i] = Returned]
       ELSE /\ partials' = [partials EXCEPT ![i] = Returned]
            /\ UNCHANGED <<diff, lastUpdateTime>>
    /\ UNCHANGED <<envVars, pc, broadcasts, says, result, thrown, response, text,
                   cmdVars, promiseVars, isProcessingFinalContent, disk, calls, aborts, fileExists,
                   userEdits, pushes, clockVars, preprocessed>>

\* abortToolExecution, called from outside at any time: revertChanges is
\* called and awaited
abortToolExecution ==
    /\ tool = "write_to_file"
    /\ OutsideEvents < MaxOutsideEvents
    /\ aborts' = Append(aborts, "revert")
    /\ calls' = Append(calls, <<"revertChanges", "abortToolExecution">>)
    /\ UNCHANGED <<envVars, pc, broadcasts, says, result, thrown, faults, response,
                   text, cmdVars, promiseVars, isProcessingFinalContent, diff, disk, fileExists,
                   userEdits>>
    /\ UNCHANGED <<partialVars, clockVars, preprocessed>>

\* revertChanges of abort call i returns; a rejection leaves abortToolExecution
abortReturns(i, ok) ==
    /\ i \in 1..Len(aborts)
    /\ aborts[i] = "revert"
    /\ Outcome(ok)
    /\ aborts' = [aborts EXCEPT ![i] = "returned"]
    /\ IF ok
       THEN /\ diff' = DiffRevert(diff)
            /\ disk' = DiskAfterRevert(diff, disk)
       ELSE UNCHANGED <<diff, disk>>
    /\ UNCHANGED <<envVars, pc, broadcasts, says, result, thrown, response, text,
                   cmdVars, promiseVars, isProcessingFinalContent, calls, fileExists, userEdits>>
    /\ UNCHANGED <<partialVars, clockVars, preprocessed>>

\* ================================================================ system ====

\* ---- preprocessContent on its own: contents put together from pieces, the
\* function applied to its own result

Pieces == {Fence, <<NL>>, <<"x">>, <<" ">>, <<"\r">>}

RECURSIVE PieceStrings(_)
PieceStrings(n) ==
    IF n = 0 THEN {<<>>}
    ELSE LET shorter == PieceStrings(n - 1)
         IN  shorter \cup {s \o piece : s \in shorter, piece \in Pieces}

PreInit ==
    /\ tool = "preprocessContent"
    /\ input \in [command : {Undefined}, path : {"a.txt"},
                  content : PieceStrings(MaxPieces)]
    /\ config = [advancedTerminalManager |-> TRUE, alwaysAllowWriteOnly |-> FALSE,
                 returnEmptyStringOnSuccess |-> FALSE, skipWriteAnimation |-> FALSE]
    /\ disk = Absent
    /\ Constructed

\* `content = this.preprocessContent(content)`, on the content or on the last result
applyPreprocessContent ==
    /\ tool = "preprocessContent"
    /\ Len(preprocessed) < 2
    /\ preprocessed' = Append(preprocessed,
            preprocessContent(IF preprocessed = <<>> THEN input.content
                              ELSE preprocessed[Len(preprocessed)]))
    /\ UNCHANGED <<envVars, pc, broadcasts, says, result, thrown, faults, response,
                   text, cmdVars, promiseVars, fileVars, partialVars, clockVars>>

PreNext == applyPreprocessContent

PreSpec == PreInit /\ [][PreNext]_vars

Next ==
    \/ execute
    \/ \E a \in Answers, ok \in BOOLEAN : askReturns(a[1], a[2], ok)
    \/ \E ok \in BOOLEAN : sayErrorReturns(ok)
    \/ \E ok \in BOOLEAN : deniedReturns(ok)
    \/ \E ok \in BOOLEAN : sayDeniedReturns(ok)
    \/ \E ok \in BOOLEAN, hasProcess \in BOOLEAN : terminalReturns(ok, hasProcess)
    \/ \E line \in Lines : onLine(line)
    \/ onCompleted
    \/ onError
    \/ onNoShellIntegration
    \/ \E ok \in BOOLEAN : warningReturns(ok)
    \/ onTimeout
    \/ finalize
    \/ \E ok \in BOOLEAN : finalizeReturns(ok)
    \/ \E i \in dropped, ok \in BOOLEAN : droppedSettles(i, ok)
    \/ processFileWrite
    \/ \E ok \in BOOLEAN : openReturns(ok)
    \/ \E ok \in BOOLEAN : updateReturns(ok)
    \/ \E a \in Answers, ok \in BOOLEAN : writeAskReturns(a[1], a[2], ok)
    \/ \E ok \in BOOLEAN : revertReturns(ok)
    \/ \E ok \in BOOLEAN : rejectedReturns(ok)
    \/ \E ok \in BOOLEAN : sayRejectedReturns(ok)
    \/ \E ok \in BOOLEAN : existsReturns(ok)
    \/ \E ok \in BOOLEAN, edits \in BOOLEAN : saveReturns(ok, edits)
    \/ \E ok \in BOOLEAN : approvedReturns(ok)
    \/ \E ok \in BOOLEAN : sayEditsReturns(ok)
    \/ abortToolExecution
    \/ \E i \in 1..MaxOutsideEvents, ok \in BOOLEAN : abortReturns(i, ok)
    \/ \E i \in 1..Len(PartialStream), currentTime \in Instants :
            handlePartialUpdate(PartialStream[i], currentTime)
    \/ \E i \in 1..Len(PartialStream), ok \in BOOLEAN : partialOpenSettles(i, ok)
    \/ \E i \in 1..Len(PartialStream) : partialOpenReturns(i)
    \/ \E i \in 1..Len(PartialStream), ok \in BOOLEAN : partialUpdateReturns(i, ok)

Spec == Init /\ [][Next]_vars

\* What the code's scheduling guarantees: a timer that was set fires, an
\* elapsed delay resumes the flow, an awaited broadcast settles.
FairSpec ==
    /\ Spec
    /\ WF_vars(onTimeout)
    /\ WF_vars(finalize)
    /\ WF_vars(\E ok \in BOOLEAN : finalizeReturns(ok))

\* ================================================================ claims ====
TerminalStates == {"rejected", "approved", "error"}
States(log) == {log[i].approvalState : i \in 1..Len(log)}
LastState(log) == log[Len(log)].approvalState
Called(method) == \E i \in 1..Len(calls) : calls[i][1] = method
CalledBy(method, caller) == \E i \in 1..Len(calls) : calls[i] = <<method, caller>>
IsPrefix(s, t) == Len(s) <= Len(t) /\ SubSeq(t, 1, Len(s)) = s

\* C1: when an invocation whose approval prompt was answered is over, exactly
\* one terminal approval state was broadcast and the last broadcast carries a
\* terminal state (rejected, approved or error).
C1_TerminalBroadcastLast ==
    (pc = "done" /\ response # "none") =>
        /\ LastState(broadcasts) \in TerminalStates
        /\ Cardinality(States(broadcasts) \cap TerminalStates) = 1

\* C2: once the ask resolved with anything but yesButtonTapped, the command
\* engine acquires no terminal and never calls runCommand, and the file-write
\* engine never calls saveChanges and has called revertChanges by the time
\* the rejected broadcast is issued and by the time the result is returned.
C2_RejectedHasNoSideEffect ==
    (response \notin {"none", "yesButtonTapped"}) =>
        /\ termCalls = 0 /\ runCalls = 0 /\ proc = "none"
        /\ ~Called("saveChanges")
        /\ tool = "write_to_file" =>
              /\ CalledBy("revertChanges", "processFileWrite")
              /\ ("rejected" \in States(broadcasts) \/ pc = "done") =>
                    calls[Min({i \in 1..Len(calls) : calls[i][2] = "processFileWrite"
                                  /\ calls[i][1] \notin {"open", "update"}})][1]
                        = "revertChanges"

C2_Witness ==
    /\ tool = "write_to_file"
    /\ response = "messageResponse"
    /\ pc = "done"
    /\ "rejected" \in States(broadcasts)
    /\ result.kind = "cancelled"

\* C3: in a command invocation no broadcast with approvalState=loading
\* follows the finalize broadcast with approvalState=approved.
C3_ApprovedIsLast ==
    tool = "execute_command" =>
        \A i, j \in 1..Len(broadcasts) :
            (i < j /\ broadcasts[i].approvalState = "approved")
                => broadcasts[j].approvalState # "loading"

\* C4 as claimed: an approved command invocation's result says "completed
\* successfully" exactly when `completed` was emitted before the timeout
\* fired, and is the "partial output available" wording whenever the timeout
\* fired first.
C4_CompletedIffBeforeTimeout ==
    (tool = "execute_command" /\ pc = "done" /\ result.kind \notin {"none", "error"}
        /\ response = "yesButtonTapped" /\ ~config.returnEmptyStringOnSuccess) =>
        /\ result.kind = "completed" <=> ~timedOut
        /\ timedOut => result.kind = "partial"

\* C5: after approval, a failure to acquire the terminal or to start the
\* command never leaves the engine as an exception: it ends in a broadcast
\* with approvalState=error and an error result.
C5_SpawnFailureIsReported ==
    (tool = "execute_command" /\ response = "yesButtonTapped" /\ pc = "done"
        /\ proc = "none") =>
        /\ ~thrown
        /\ result.kind = "error"
        /\ LastState(broadcasts) = "error"

\* C6: once the process has emitted no_shell_integration during a command
\* invocation, the engine issues no broadcast with approvalState=approved
\* for that invocation.
C6_NoShellIntegrationIsFatal ==
    [][("no_shell_integration" \in procEvents /\ pc # "done") =>
          ~(Len(broadcasts') > Len(broadcasts)
              /\ LastState(broadcasts') = "approved")]_vars

\* C7: when processFileWrite has returned after the Diff Session was opened
\* (update is only called on an open session), revertChanges was called or
\* saveChanges went through (the approved broadcast follows it).
C7_SessionClosedOnExit ==
    (tool = "write_to_file" /\ pc = "done" /\ CalledBy("update", "processFileWrite")) =>
        \/ Called("revertChanges")
        \/ "approved" \in States(broadcasts)

\* C8: after abortToolExecution has reverted the Diff Session, no later step
\* of the invocation calls saveChanges.
C8_NoSaveAfterAbort ==
    \A i, j \in 1..Len(calls) :
        (i < j /\ calls[i] = <<"revertChanges", "abortToolExecution">>)
            => calls[j][1] # "saveChanges"

\* every line followed by a newline, in order
RECURSIVE JoinAll(_)
JoinAll(ls) == IF ls = <<>> THEN <<>> ELSE Head(ls) \o <<NL>> \o JoinAll(Tail(ls))

\* every non-empty line followed by a newline, in order
RECURSIVE JoinNonEmpty(_)
JoinNonEmpty(ls) ==
    IF ls = <<>> THEN <<>>
    ELSE (IF Head(ls) = <<>> THEN <<>> ELSE Head(ls) \o <<NL>>) \o JoinNonEmpty(Tail(ls))

\* the broadcasts that carry the buffer: streaming and finalize
CarriesBuffer(b) ==
    /\ b.approvalState \in {"loading", "approved"}
    /\ b.data # Undefined

\* C9 as claimed: the OutputBuffer is the concatenation of all line events
\* received so far, each followed by a newline, in emission order.
C9_BufferIsAllLines ==
    tool = "execute_command" => output = JoinAll(received)

\* C9 amended: the OutputBuffer is the concatenation of all NON-EMPTY line
\* events received so far, each followed by a newline, in emission order; it
\* only grows by appending; every streaming and finalize broadcast carries
\* the buffer as it stood when the broadcast was issued.
C9_BufferIsNonEmptyLines ==
    /\ [](tool = "execute_command" =>
            /\ output = JoinNonEmpty(received)
            /\ \A i \in 1..Len(broadcasts) :
                  CarriesBuffer(broadcasts[i]) =>
                      broadcasts[i].data =
                          JoinNonEmpty(SubSeq(received, 1, broadcasts[i].seen)))
    /\ [][IsPrefix(output, output')]_vars

C9_Witness ==
    /\ Len(received) = 2
    /\ received[1] = <<>>
    /\ received[2] # <<>>
    /\ Len(output) = 2
    /\ \E i \in 1..Len(broadcasts) :
          broadcasts[i].approvalState = "approved" /\ broadcasts[i].seen = 1

\* the timeout ended the race and the process has not emitted `completed`
TimedOutUncompleted ==
    /\ tool = "execute_command"
    /\ pc = "done"
    /\ timedOut
    /\ "completed" \notin procEvents

\* C10 as claimed: an approved command invocation whose process never emits
\* `completed` ends (here: with no collaborator failing) with an approved
\* finalize broadcast and a partial-output result, the process left running.
C10_TimeoutGivesPartial ==
    (TimedOutUncompleted /\ faults = 0) =>
        /\ result.kind = "partial"
        /\ "approved" \in States(broadcasts)
        /\ proc = "running"

\* C10 amended: an approved command invocation that started its process
\* always terminates, even when the process never emits `completed`: the
\* timeout ends the race, the engine issues the approved finalize broadcast
\* and, leaving the process running, returns the partial-output result --
\* or the empty result when returnEmptyStringOnSuccess is set, or the error
\* result when the finalize broadcast itself fails.
C10_TimeoutTerminates ==
    /\ (pc = "race") ~> (pc = "done")
    /\ [](TimedOutUncompleted =>
            /\ "approved" \in States(broadcasts)
            /\ proc = "running"
            /\ ~thrown
            /\ result.kind =
                 IF "error" \in States(broadcasts) THEN "error"
                 ELSE IF config.returnEmptyStringOnSuccess THEN "empty"
                 ELSE "partial")

C10_Witness ==
    /\ TimedOutUncompleted
    /\ result.kind = "partial"
    /\ Len(received) = MaxLines
    /\ LastState(broadcasts) = "loading"

\* a command string that is missing, empty or made of whitespace only
BlankCommand ==
    \/ input.command = Undefined
    \/ \A i \in 1..Len(input.command) : input.command[i] \in WhiteSpace

MissingWriteInput == input.path = "" \/ input.content \in {Undefined, <<>>}

\* C12: for a missing or empty path or content, processFileWrite returns the
\* error result at once: it never calls open, update, saveChanges or
\* revertChanges, and it issues no ask and no approval broadcast.
C12_MissingWriteInputIsRejectedEarly ==
    (tool = "write_to_file" /\ MissingWriteInput) =>
        /\ pc \in {"start", "done"}
        /\ \A i \in 1..Len(calls) : calls[i][2] # "processFileWrite"
        /\ \A i \in 1..Len(pushes) : pushes[i].by # "processFileWrite"
        /\ \A i \in 1..Len(broadcasts) :
              broadcasts[i].via # "ask" /\ broadcasts[i].approvalState = "loading"
        /\ pc = "done" => (result.kind = "error" /\ ~thrown)

C12_Witness ==
    /\ tool = "write_to_file"
    /\ input.path = "a.txt"
    /\ input.content = <<>>
    /\ pc = "done"
    /\ result.kind = "error"
    /\ calls # <<>>

\* C13: at every return of processFileWrite (success, rejection, validation
\* error, thrown failure) isProcessingFinalContent is false and the Diff
\* Session's isEditing is false.
C13_FlagsResetOnReturn ==
    [][(tool = "write_to_file" /\ pc # "done" /\ pc' = "done") =>
            (~isProcessingFinalContent' /\ ~diff'.isEditing)]_vars

C13_Witness ==
    /\ tool = "write_to_file"
    /\ pc = "done"
    /\ result.kind = "error"
    /\ CalledBy("update", "processFileWrite")
    /\ diff.open
    /\ ~diff.isEditing
    /\ ~isProcessingFinalContent

\* C14: preprocessContent applied to its own result returns that result, for
\* every content, fenced more than once or not.
C14_PreprocessIsIdempotent ==
    Len(preprocessed) = 2 => preprocessed[2] = preprocessed[1]

\* C15: once the final preview content has been pushed, no non-final update
\* is pushed to the Diff Session: not by a handlePartialUpdate call that was
\* suspended when finalizing began, not by one that arrives after
\* processFileWrite returned (no awaited call failing).
C15_NoPartialPushAfterFinal ==
    faults = 0 =>
        \A i, j \in 1..Len(pushes) :
            (i < j /\ pushes[i].isFinal) => pushes[j].isFinal

\* C16: open(path) is called at most once in an invocation, whatever the
\* interleaving of handlePartialUpdate calls and processFileWrite.
C16_OpenedAtMostOnce ==
    Cardinality({i \in 1..Len(calls) : calls[i][1] = "open"}) <= 1

\* C17: any two update(content, false) pushes made by handlePartialUpdate are
\* at least UPDATE_INTERVAL ms apart.
C17_PartialPushesAreThrottled ==
    \A i, j \in 1..Len(pushes) :
        (i < j /\ ~pushes[i].isFinal /\ ~pushes[j].isFinal)
            => pushes[j].at - pushes[i].at >= UPDATE_INTERVAL

\* the contents pushed to the Diff Session as the final preview
FinalPreviews == {pushes[i].content : i \in {j \in 1..Len(pushes) : pushes[j].isFinal}}

\* C18: the content carried by the pending ask and by the rejected and
\* approved broadcasts of a file write is the content that was pushed to the
\* Diff Session as the final preview.
C18_AskCarriesPreviewedContent ==
    tool = "write_to_file" =>
        \A i \in 1..Len(broadcasts) :
            broadcasts[i].approvalState \in {"pending", "rejected", "approved"}
                => broadcasts[i].data \in FinalPreviews

\* the output an approved broadcast shows, as a result would embed it
Embedded(data) == IF data = <<>> THEN NoOutputText ELSE data

\* C19: the output embedded in the success or partial result of an approved
\* command invocation is the output carried by the approved finalize
\* broadcast.
C19_ResultEmbedsBroadcastOutput ==
    (tool = "execute_command" /\ pc = "done" /\ result.kind \in {"completed", "partial"}) =>
        \E i \in 1..Len(broadcasts) :
            /\ broadcasts[i].approvalState = "approved"
            /\ result.body = Embedded(broadcasts[i].data)

====
